---- MODULE Spec2Model ----
(***************************************************************************)
(* A model of the three front-end scripts of the CTF writeup generator:    *)
(*   "guarded"   the chat script whose sendMessage checks sendButton       *)
(*               .disabled (src/unnamed/part_000, lines 1-343),            *)
(*   "unguarded" the older chat script (src/unnamed/part_000, 344-533),    *)
(*   "frontend2" the form script (src/frontend2/script.js).                *)
(* A page loads exactly one of them; Init chooses which.  Texts are        *)
(* sequences of one-character strings, so that splicing, trimming and      *)
(* token search are computed as the code computes them.  An async handler  *)
(* is one action per stretch between two awaits; fetch() and the           *)
(* response.json() that follows it settle in one step.  The focus-mode     *)
(* overlay, the code modal's visibility and the category select only       *)
(* restyle the page or pass a value through, and are left out.             *)
(***************************************************************************)
EXTENDS Integers, Sequences, FiniteSets

\* ------------------------------------------------------------------ bounds
MaxTyped == 1        \* characters the user has typed into the input at a time
MaxAttach == 2       \* attachments (pastes, code blocks) created in a run of a chat script
MaxSends == 2        \* generation requests issued in a run
MaxDownloads == 1    \* export handler invocations in a run
MaxFiles == 1        \* files chosen in frontend2 file inputs in a run
MaxWork == 3         \* attachments, rows and generation requests in a run
MaxRows == 3         \* attachment rows created in a run of frontend2
MaxIgnored == 1      \* paste / code-confirm events a run's handlers return from at once

\* ------------------------------------------------------------- input sets
Scripts == {"guarded", "unguarded", "frontend2"}
Blobs == {"A", "B"}                    \* image files the user can attach
TypedChars == {"a", " "}               \* what the user types by hand
CodeTexts == {<<>>, <<" ">>, <<"c">>}  \* contents of the code modal / textarea
Details == {"", "rate limited"}        \* detail of a JSON error body ("" = none)
TextareaTexts == {<<>>, <<"c">>}       \* what the user writes in a frontend2 textarea
Null == "null"                         \* JavaScript null
None == "none"                         \* no value (no file chosen, no response)

Min(a, b) == IF a < b THEN a ELSE b
Max(a, b) == IF a > b THEN a ELSE b

\* ------------------------------------------------------------ pure helpers
\* String.prototype.substring(start, end): both indices clamped to
\* [0, length], swapped when start > end; the result is text[start, end).
Substring(text, start, end) ==
    LET s == Min(Max(start, 0), Len(text))
        e == Min(Max(end, 0), Len(text))
        lo == Min(s, e)
        hi == Max(s, e)
    IN  SubSeq(text, lo + 1, hi)

IsSpace(c) == c = " "

\* String.prototype.trim(): leading and trailing white space removed.
RECURSIVE TrimLeft(_)
TrimLeft(text) ==
    IF text # <<>> /\ IsSpace(Head(text)) THEN TrimLeft(Tail(text)) ELSE text

RECURSIVE TrimRight(_)
TrimRight(text) ==
    IF text # <<>> /\ IsSpace(text[Len(text)])
    THEN TrimRight(SubSeq(text, 1, Len(text) - 1))
    ELSE text

Trim(text) == TrimRight(TrimLeft(text))

DigitChar(d) ==
    CASE d = 0 -> "0" [] d = 1 -> "1" [] d = 2 -> "2" [] d = 3 -> "3"
      [] d = 4 -> "4" [] d = 5 -> "5" [] d = 6 -> "6" [] d = 7 -> "7"
      [] d = 8 -> "8" [] d = 9 -> "9"

\* The decimal digits of n, as the template literal `${counter}` prints them.
RECURSIVE Decimal(_)
Decimal(n) ==
    IF n < 10 THEN <<DigitChar(n)>> ELSE Decimal(n \div 10) \o <<DigitChar(n % 10)>>

TypeChars(type) ==
    IF type = "img" THEN <<"i", "m", "g">> ELSE <<"c", "o", "d", "e">>

\* `[[${type}${n}]]`
Placeholder(type, n) ==
    <<"[", "[">> \o TypeChars(type) \o Decimal(n) \o <<"]", "]">>

\* counter++ : the value the expression yields, and the counter afterwards
PostIncrementStuck(counter) == counter
PostIncrement(counter) == counter + 1

\* FileReader.readAsDataURL: the data URL of a blob
DataUrl(blob) == <<"data:image/png;base64,", blob>>

\* does token occur in text as a contiguous substring?
Occurs(token, text) ==
    \E i \in 0..(Len(text) - Len(token)) :
        Substring(text, i, i + Len(token)) = token

\* the token universe the bounds allow
AllTokens ==
    {Placeholder(ty, n) : ty \in {"img", "code"}, n \in 1..(MaxAttach + MaxRows + 1)}


\* ------------------------------------------------------------------- state
VARIABLES
    script,              \* which script the page runs
    value,               \* messageInput.value (chat) / promptEl.value (frontend2)
    selectionStart,      \* messageInput.selectionStart, the live caret
    lastCursorPosition,  \* let lastCursorPosition
    placeholderMap,      \* let placeholderMap
    imgCounter,          \* let imgCounter (chat scripts)
    codeCounter,         \* let codeCounter (every script)
    imagePreviews,       \* children of #image-previews: [url, placeholder]
    codePreviews,        \* children of #code-previews: [code, placeholder]
    sendDisabled,        \* sendButton.disabled
    chatBox,             \* children of #chat-box, in order
    currentSessionId,    \* let currentSessionId
    requests,            \* the sendMessage / generate calls that got past their guards
    readers,             \* FileReaders started by handlePaste (guarded script)
    objectUrls,          \* blobs given to URL.createObjectURL, in creation order
    downloads,           \* the invocations of an export handler
    mintLog,             \* tokens minted since the last reset, with what the user
                         \* attached under each and whether a request body has
                         \* carried the entry (history)
    codeAdds,            \* code blocks added through the modal so far (history)
    ignored,             \* paste and code-confirm events whose handler found nothing
                         \* to attach (history)
    emptySends,          \* calls of a chat script's sendMessage that found no
                         \* message text (history)
    imageCounter,        \* let imageCounter (frontend2)
    elems,               \* frontend2: every .mapping-item created, by creation index
    rows,                \* frontend2: children of #mappings-container, in order
    generateDisabled,    \* frontend2: generateBtn.disabled
    outputEl,            \* frontend2: outputEl.textContent
    downloadZipDisabled, \* frontend2: downloadZipBtn.disabled
    downloadDocxDisabled \* frontend2: downloadDocxBtn.disabled

inputVars == <<value, selectionStart, lastCursorPosition>>
registryVars ==
    <<placeholderMap, imgCounter, codeCounter, imagePreviews, codePreviews, mintLog>>
f2Vars ==
    <<imageCounter, elems, rows, generateDisabled, outputEl, downloadZipDisabled,
      downloadDocxDisabled>>
vars == <<script, value, selectionStart, lastCursorPosition, placeholderMap, imgCounter,
          codeCounter, imagePreviews, codePreviews, sendDisabled, chatBox,
          currentSessionId, requests, readers, objectUrls, downloads, mintLog, codeAdds,
          ignored, emptySends,
          imageCounter, elems, rows, generateDisabled, outputEl, downloadZipDisabled,
          downloadDocxDisabled>>

EmptyMap == [t \in {} |-> None]

\* placeholderMap[placeholder] = content
Register(map, placeholder, content) ==
    [t \in DOMAIN map \cup {placeholder} |-> IF t = placeholder THEN content ELSE map[t]]

\* insertPlaceholder: text.substring(0, position) + placeholder + text.substring(position)
InsertAt(text, placeholder, position) ==
    Substring(text, 0, position) \o placeholder \o Substring(text, position, Len(text))

\* the registry and the input as one record, so that a handler which attaches
\* several items in a loop can be folded over them
Cur ==
    [value |-> value, sel |-> selectionStart, last |-> lastCursorPosition,
     map |-> placeholderMap, img |-> imgCounter, code |-> codeCounter,
     imgPrev |-> imagePreviews, codePrev |-> codePreviews, log |-> mintLog,
     urls |-> objectUrls]

Commit(st) ==
    /\ value' = st.value
    /\ selectionStart' = st.sel
    /\ lastCursorPosition' = st.last
    /\ placeholderMap' = st.map
    /\ imgCounter' = st.img
    /\ codeCounter' = st.code
    /\ imagePreviews' = st.imgPrev
    /\ codePreviews' = st.codePrev
    /\ mintLog' = st.log
    /\ objectUrls' = st.urls

\* insertPlaceholder(placeholder, position) on the record: splice, then
\* setSelectionRange (which the browser clamps to the text) and lastCursorPosition
insertPlaceholder(st, placeholder, position) ==
    LET text == InsertAt(st.value, placeholder, position)
        newCursorPos == position + Len(placeholder)
    IN  [st EXCEPT !.value = text,
                   !.sel = Min(newCursorPos, Len(text)),
                   !.last = newCursorPos]

\* the body of reader.onload (guarded) / of the paste loop (unguarded): mint an
\* image token, register url under it, splice it at the live caret, add the
\* preview.  The log keeps the blob the url was made from.
AttachImage(st, url, blob) ==
    LET placeholder == Placeholder("img", st.img)
        st1 == [st EXCEPT !.img = PostIncrement(@),
                          !.map = Register(@, placeholder, url),
                          !.log = Append(@, [type |-> "img", token |-> placeholder,
                                             source |-> blob, sent |-> FALSE])]
        st2 == insertPlaceholder(st1, placeholder, st1.sel)
    IN  [st2 EXCEPT !.imgPrev = Append(@, [url |-> url, placeholder |-> placeholder])]

\* the body of addCodeFromModal after its guard; the unguarded script has no
\* code preview container
AttachCode(st, codeText, withPreview) ==
    LET placeholder == Placeholder("code", st.code)
        st1 == [st EXCEPT !.code = PostIncrement(@),
                          !.map = Register(@, placeholder, codeText),
                          !.log = Append(@, [type |-> "code", token |-> placeholder,
                                             source |-> codeText, sent |-> FALSE])]
        st2 == insertPlaceholder(st1, placeholder, st1.last)
    IN  IF withPreview
        THEN [st2 EXCEPT !.codePrev =
                 Append(@, [code |-> codeText, placeholder |-> placeholder])]
        ELSE st2

\* "Reset for next message"
ResetKeepsMap(st) ==
    [st EXCEPT !.code = 1, !.img = 1, !.imgPrev = <<>>, !.codePrev = <<>>, !.log = <<>>]
ResetKeepsCodePreviews(st) ==
    [st EXCEPT !.map = EmptyMap, !.code = 1, !.img = 1, !.imgPrev = <<>>, !.log = <<>>]
ResetRegistry(st) ==
    [st EXCEPT !.map = EmptyMap, !.code = 1, !.img = 1,
               !.imgPrev = <<>>, !.codePrev = <<>>, !.log = <<>>]

\* attachments created so far in this run
Attachments ==
    Len(readers) + codeAdds + (IF script = "unguarded" THEN Len(objectUrls) ELSE 0)

\* attachments, rows and generation requests so far in this run
Work == Attachments + Len(elems) + Len(requests)

\* --------------------------------------------------------- server answers
\* What a generation call can settle with: a 200 answer {session_id,
\* generated_text}, a non-success answer whose body is JSON ({detail: d}, d = ""
\* standing for a body without detail) or empty, or a transport failure (fetch
\* rejects).
OkResponses ==
    {[kind |-> "ok", body |-> "json", detail |-> "", session_id |-> sg[1],
      generated_text |-> sg[2]] : sg \in {<<"s1", "g1">>, <<"s2", "g2">>, <<"", "g1">>}}
ErrResponses ==
    {[kind |-> "err", body |-> "json", detail |-> d, session_id |-> None,
      generated_text |-> None] : d \in Details}
    \cup {[kind |-> "err", body |-> "empty", detail |-> "", session_id |-> None,
           generated_text |-> None]}
Rejected ==
    [kind |-> "reject", body |-> "empty", detail |-> "", session_id |-> None,
     generated_text |-> None]
Responses == OkResponses \cup ErrResponses \cup {Rejected}
NoResponse ==
    [kind |-> "none", body |-> "empty", detail |-> "", session_id |-> None,
     generated_text |-> None]

\* messages of the errors the runtime itself raises
FetchErrorMessage == "Failed to fetch"               \* TypeError of a rejected fetch
JsonErrorMessage == "Unexpected end of JSON input"   \* SyntaxError of response.json()

\* errorData.detail || fallback
DetailOr(detail, fallback) == IF detail # "" THEN detail ELSE fallback

\* `Error: ${error.message}`
ErrorText(message) == <<"Error: ", message>>

\* currentSessionId after a generation call settled with r: assigned from the
\* body of a success answer only
SessionAfterAny(current, r) == r.session_id
SessionAfter(current, r) == IF r.kind = "ok" THEN r.session_id ELSE current

\* !currentSessionId
Falsy(v) == v = Null \/ v = ""

\* ----------------------------------------------------------- chat box
\* a child of #chat-box: a user message, the loading animation / 'Thinking...'
\* message of request req, or a bot message with its text and, when it carries
\* download buttons, the content they were created with.  The text of a user
\* message is the prompt of its request and is kept there.
Element(kind, req, text, content) ==
    [kind |-> kind, req |-> req, text |-> text, content |-> content]

\* is the element (kind, req) a child of box?
IsChild(box, kind, req) ==
    \E k \in 1..Len(box) : box[k].kind = kind /\ box[k].req = req

RemoveChild(box, kind, req) ==
    SelectSeq(box, LAMBDA e : ~(e.kind = kind /\ e.req = req))

InChat == script \in {"guarded", "unguarded"}

\* ------------------------------------------------------ user on the input
Typed == Cardinality({k \in 1..Len(value) : value[k] \in TypedChars})

\* the user types one character at the caret
TypeChar ==
    /\ InChat
    /\ Typed < MaxTyped
    /\ \E c \in TypedChars :
         /\ value' = InsertAt(value, <<c>>, selectionStart)
         /\ selectionStart' = selectionStart + 1
    /\ UNCHANGED <<script, lastCursorPosition, registryVars, sendDisabled, chatBox,
                   currentSessionId, requests, readers, objectUrls, downloads,
                   codeAdds, ignored, emptySends, f2Vars>>

\* where the user puts the caret: the start, inside the first token or after
\* the first character, the end
CaretStops(text) == {0, 1, Len(text)} \cap (0..Len(text))

\* the user moves the caret
MoveCaret ==
    /\ InChat
    /\ \E p \in CaretStops(value) :
         /\ p # selectionStart
         /\ selectionStart' = p
    /\ UNCHANGED <<script, value, lastCursorPosition, registryVars, sendDisabled,
                   chatBox, currentSessionId, requests, readers, objectUrls, downloads,
                   codeAdds, ignored, emptySends, f2Vars>>

\* messageInput 'focusout' listener
focusout ==
    /\ InChat
    /\ lastCursorPosition' = selectionStart
    /\ UNCHANGED <<script, value, selectionStart, registryVars, sendDisabled, chatBox,
                   currentSessionId, requests, readers, objectUrls, downloads,
                   codeAdds, ignored, emptySends, f2Vars>>

\* ------------------------------------------------------------ attachments
\* e.clipboardData.items: each item has a MIME type and, for a file, a blob
ClipboardItems ==
    {[type |-> "text/plain", blob |-> None]}
    \cup {[type |-> "image/png", blob |-> b] : b \in Blobs}
Clipboards ==
    {<<a>> : a \in ClipboardItems}
    \cup {<<a, b>> : a \in ClipboardItems, b \in ClipboardItems}

\* items[i].type.indexOf('image') !== -1
IsImageAny(item) == TRUE
IsImage(item) == item.type \in {"image/png"}

ImagesIn(items) == Cardinality({k \in 1..Len(items) : IsImage(items[k])})

\* URL.createObjectURL: a fresh URL for every call
ObjectUrl(k) == <<"blob:", k>>

\* handlePaste of the guarded script: one FileReader per image item; the token
\* is minted later, in reader.onload
RECURSIVE StartReaders(_, _)
StartReaders(items, rs) ==
    IF items = <<>> THEN rs
    ELSE StartReaders(Tail(items),
                      IF IsImage(Head(items))
                      THEN Append(rs, [blob |-> Head(items).blob, pc |-> "reading"])
                      ELSE rs)

handlePaste ==
    /\ script = "guarded"
    /\ \E items \in Clipboards :
         /\ Attachments + ImagesIn(items) <= MaxAttach
         /\ Work + ImagesIn(items) <= MaxWork
         /\ readers' = StartReaders(items, readers)
         /\ IF ImagesIn(items) = 0
            THEN ignored + emptySends < MaxIgnored /\ ignored' = ignored + 1
            ELSE UNCHANGED ignored
    /\ UNCHANGED <<script, inputVars, registryVars, sendDisabled, chatBox,
                   currentSessionId, requests, objectUrls, downloads, codeAdds,
                   emptySends, f2Vars>>

\* reader.onload of reader i: the reads complete in any order
readerOnload ==
    /\ script = "guarded"
    /\ \E i \in 1..Len(readers) :
         /\ readers[i].pc = "reading"
         /\ readers' = [readers EXCEPT ![i].pc = "loaded"]
         /\ Commit(AttachImage(Cur, DataUrl(readers[i].blob), readers[i].blob))
    /\ UNCHANGED <<script, sendDisabled, chatBox, currentSessionId, requests, downloads,
                   codeAdds, ignored, emptySends, f2Vars>>

\* handlePaste of the unguarded script: token, object URL, splice and preview
\* for every image item, synchronously in the loop
RECURSIVE PasteLoop(_, _)
PasteLoop(items, st) ==
    IF items = <<>> THEN st
    ELSE PasteLoop(Tail(items),
                   IF IsImage(Head(items))
                   THEN AttachImage([st EXCEPT !.urls = Append(@, Head(items).blob)],
                                    ObjectUrl(Len(st.urls) + 1), Head(items).blob)
                   ELSE st)

handlePasteUnguarded ==
    /\ script = "unguarded"
    /\ \E items \in Clipboards :
         /\ Attachments + ImagesIn(items) <= MaxAttach
         /\ Work + ImagesIn(items) <= MaxWork
         /\ Commit(PasteLoop(items, Cur))
         /\ IF ImagesIn(items) = 0
            THEN ignored + emptySends < MaxIgnored /\ ignored' = ignored + 1
            ELSE UNCHANGED ignored
    /\ UNCHANGED <<script, sendDisabled, chatBox, currentSessionId, requests, readers,
                   downloads, codeAdds, emptySends, f2Vars>>

\* addCodeFromModal, with codeInput.value = codeText (both chat scripts; only
\* the guarded one adds a code preview)
addCodeFromModal ==
    /\ InChat
    /\ \E codeText \in CodeTexts :
         IF Trim(codeText) = <<>>
         THEN /\ ignored + emptySends < MaxIgnored
              /\ ignored' = ignored + 1
              /\ UNCHANGED <<inputVars, registryVars, objectUrls, codeAdds>>
         ELSE /\ Attachments < MaxAttach
              /\ Work < MaxWork
              /\ Commit(AttachCode(Cur, codeText, script = "guarded"))
              /\ codeAdds' = codeAdds + 1
              /\ UNCHANGED ignored
    /\ UNCHANGED <<script, sendDisabled, chatBox, currentSessionId, requests, readers,
                   downloads, emptySends, f2Vars>>

\* --------------------------------------------------------------- sending
\* a call of sendMessage / of the generate handler that reached its fetch: the
\* body it posts, where it stands, and the answer once it has settled
Request(prompt, mappings) ==
    [prompt |-> prompt, mappings |-> mappings, pc |-> "fetch", resp |-> NoResponse,
     reads |-> <<>>]

\* a call that has returned: its closure, and the body with it, is gone
Settled(request, pc, r) ==
    [request EXCEPT !.prompt = <<>>, !.mappings = EmptyMap, !.pc = pc, !.resp = r]

InFlight(i) == requests[i].pc = "fetch"

\* mappings: placeholderMap goes into the request body: every entry
\* registered so far has now been sent
MarkSent(log) == [k \in 1..Len(log) |-> [log[k] EXCEPT !.sent = TRUE]]

\* the guard at the top of the guarded sendMessage
SendGuardOff(disabled) == FALSE
SendGuard(disabled) == disabled

\* finally { button.disabled = false; }
FinallySkipped(disabled) == disabled
Finally(disabled) == FALSE

\* if (messageText === '') { sendButton.disabled = false; return; }: the
\* button, disabled two lines above, is enabled again
DisabledAtEmptyReturnKept(disabled) == disabled
DisabledAtEmptyReturn(disabled) == FALSE

\* a call of sendMessage that returns before it builds a request and leaves
\* the send button as given; a call that found no message text is counted
NoRequest(disabled) ==
    /\ sendDisabled' = disabled
    /\ IF Trim(value) = <<>>
       THEN ignored + emptySends < MaxIgnored /\ emptySends' = emptySends + 1
       ELSE UNCHANGED emptySends
    /\ UNCHANGED <<script, inputVars, registryVars, chatBox, currentSessionId, requests,
                   readers, objectUrls, downloads, codeAdds, ignored, f2Vars>>

\* sendMessage of the guarded script, up to its await (form submit, send
\* button click and Enter all call it)
sendMessage ==
    /\ script = "guarded"
    /\ IF SendGuard(sendDisabled)
       THEN NoRequest(sendDisabled)
       ELSE LET messageText == Trim(value) IN
            IF messageText = <<>>
            THEN NoRequest(DisabledAtEmptyReturn(TRUE))
            ELSE /\ Len(requests) < MaxSends
                 /\ Work < MaxWork
                 /\ sendDisabled' = TRUE
                 /\ chatBox' = chatBox
                        \o <<Element("user", Len(requests) + 1, <<>>, None),
                             Element("loading", Len(requests) + 1, <<>>, None)>>
                 /\ value' = <<>>
                 /\ selectionStart' = 0
                 /\ requests' = Append(requests, Request(messageText, placeholderMap))
                 /\ mintLog' = MarkSent(mintLog)
                 /\ UNCHANGED <<script, lastCursorPosition, placeholderMap, imgCounter,
                                codeCounter, imagePreviews, codePreviews,
                                currentSessionId, readers, objectUrls, downloads,
                                codeAdds, ignored, emptySends, f2Vars>>

\* the message the guarded script derives from a non-success answer:
\* errorData is {} when the body does not parse
GuardedErrorMessage(r) ==
    IF r.kind = "reject" THEN FetchErrorMessage
    ELSE DetailOr(IF r.body = "json" THEN r.detail ELSE "", "An unknown error occurred.")

\* request i of the guarded script settles with r: the rest of sendMessage,
\* through try, catch and finally to the reset
settled ==
    /\ script = "guarded"
    /\ \E i \in 1..Len(requests), r \in Responses :
         /\ InFlight(i)
         /\ requests' = [requests EXCEPT ![i] = Settled(@, "done", r)]
         /\ IF r.kind = "ok"
            THEN chatBox' = Append(RemoveChild(chatBox, "loading", i),
                                   Element("bot", i, <<"Done!">>, r.generated_text))
            ELSE chatBox' = Append(RemoveChild(chatBox, "loading", i),
                                   Element("bot", i, ErrorText(GuardedErrorMessage(r)),
                                           None))
         /\ currentSessionId' = SessionAfter(currentSessionId, r)
         /\ sendDisabled' = Finally(sendDisabled)
         /\ Commit(ResetRegistry(Cur))
    /\ UNCHANGED <<script, readers, downloads, codeAdds, ignored, emptySends, f2Vars>>

\* the one early return of the unguarded sendMessage (line 400): the handler
\* tests the trimmed text only, whether or not a request is still pending
EarlyReturnWhilePending(messageText, pending) == messageText = <<>> \/ pending
EarlyReturn(messageText, pending) == messageText = <<>>

\* sendMessage of the unguarded script, up to its await
sendMessageUnguarded ==
    /\ script = "unguarded"
    /\ LET messageText == Trim(value) IN
       IF EarlyReturn(messageText, \E i \in 1..Len(requests) : InFlight(i))
       THEN NoRequest(sendDisabled)
       ELSE /\ Len(requests) < MaxSends
            /\ Work < MaxWork
            /\ chatBox' = chatBox
                   \o <<Element("user", Len(requests) + 1, <<>>, None),
                        Element("thinking", Len(requests) + 1, <<"Thinking...">>, None)>>
            /\ value' = <<>>
            /\ selectionStart' = 0
            /\ requests' = Append(requests, Request(messageText, placeholderMap))
            /\ mintLog' = MarkSent(mintLog)
            /\ UNCHANGED <<script, lastCursorPosition, placeholderMap, imgCounter,
                           codeCounter, imagePreviews, codePreviews, sendDisabled,
                           currentSessionId, readers, objectUrls, downloads, codeAdds, ignored, emptySends,
                           f2Vars>>

\* the message the unguarded script derives from a non-success answer:
\* response.json() is not guarded, so an empty body raises its SyntaxError
UnguardedErrorMessage(r) ==
    IF r.kind = "reject" THEN FetchErrorMessage
    ELSE IF r.body = "json" THEN DetailOr(r.detail, "An unknown error occurred.")
    ELSE JsonErrorMessage

\* request i of the unguarded script settles with r.  When fetch resolves the
\* 'Thinking...' message is removed first (line 422); the catch block removes it
\* again, and chatBox.removeChild throws NotFoundError for an element that is no
\* longer a child: the handler then ends inside catch, before the error
\* message and before the reset.
settledUnguarded ==
    /\ script = "unguarded"
    /\ \E i \in 1..Len(requests), r \in Responses :
         /\ InFlight(i)
         /\ LET box == IF r.kind = "reject" THEN chatBox
                       ELSE RemoveChild(chatBox, "thinking", i)
            IN  IF r.kind = "ok"
                THEN /\ chatBox' = Append(box, Element("bot", i, <<r.generated_text>>,
                                                       r.generated_text))
                     /\ Commit(ResetRegistry(Cur))
                     /\ requests' = [requests EXCEPT ![i] = Settled(@, "done", r)]
                ELSE IF IsChild(box, "thinking", i)
                THEN /\ chatBox' = Append(RemoveChild(box, "thinking", i),
                                          Element("bot", i,
                                                  ErrorText(UnguardedErrorMessage(r)), None))
                     /\ Commit(ResetRegistry(Cur))
                     /\ requests' = [requests EXCEPT ![i] = Settled(@, "done", r)]
                ELSE /\ chatBox' = box
                     /\ requests' = [requests EXCEPT ![i] = Settled(@, "threw", r)]
                     /\ UNCHANGED <<inputVars, registryVars, objectUrls>>
    /\ UNCHANGED <<script, sendDisabled, currentSessionId, readers, downloads, codeAdds, ignored, emptySends,
                   f2Vars>>

\* ---------------------------------------------------------------- exports
Endpoints == {"/download-package", "/download-docx"}

FileName(endpoint) ==
    IF endpoint = "/download-package" THEN "writeup_package.zip" ELSE "writeup.docx"

\* what an export endpoint can answer: the file, a non-success answer (JSON
\* body or empty), or a transport failure
DownloadResponses ==
    {[kind |-> "ok", body |-> "blob", detail |-> "", session_id |-> None,
      generated_text |-> None]} \cup ErrResponses \cup {Rejected}

\* one invocation of an export handler: whether it posted a request, the
\* currentSessionId it read, the content it was to send, the answer it got, the
\* alert it raised (<<>> = none) and the file it saved (None = none)
Download(endpoint, posted, session, content, alert, saved, pc) ==
    [endpoint |-> endpoint, posted |-> posted, session_id |-> session,
     markdown_content |-> content, resp |-> NoResponse, alert |-> alert,
     saved |-> saved, pc |-> pc]

\* the file the export handler saves through a.click(): only for response.ok
SavedFileAlways(endpoint, r) == FileName(endpoint)
SavedFile(endpoint, r) == IF r.kind = "ok" THEN FileName(endpoint) ELSE None

\* the notice of the chat script's export handlers when there is no session
NoSessionAlert == <<"No session ID found. Please generate a writeup first.">>

\* downloadPackage(content) / downloadDocx(content) of the guarded script, up
\* to the await; the buttons sit on the bot message of a successful generation
downloadClick ==
    /\ script = "guarded"
    /\ Len(downloads) < MaxDownloads
    /\ \E k \in 1..Len(chatBox), endpoint \in Endpoints :
         /\ chatBox[k].content # None
         /\ downloads' = Append(downloads,
               IF Falsy(currentSessionId)
               THEN Download(endpoint, FALSE, currentSessionId, None, NoSessionAlert,
                             None, "done")
               ELSE Download(endpoint, TRUE, currentSessionId, chatBox[k].content,
                             <<>>, None, "fetch"))
    /\ UNCHANGED <<script, inputVars, registryVars, sendDisabled, chatBox,
                   currentSessionId, requests, readers, objectUrls, codeAdds, ignored, emptySends, f2Vars>>

\* the export fetch of download j settles (guarded script): the rest of the
\* handler
downloadSettled ==
    /\ script = "guarded"
    /\ \E j \in 1..Len(downloads), r \in DownloadResponses :
         /\ downloads[j].pc = "fetch"
         /\ downloads' = [downloads EXCEPT
               ![j].pc = "done",
               ![j].resp = r,
               ![j].saved = SavedFile(downloads[j].endpoint, r),
               ![j].alert = IF r.kind = "ok" THEN <<>>
                            ELSE IF downloads[j].endpoint = "/download-package"
                                 THEN <<"Failed to download package.">>
                                 ELSE <<"Failed to download .docx file.">>]
    /\ UNCHANGED <<script, inputVars, registryVars, sendDisabled, chatBox,
                   currentSessionId, requests, readers, objectUrls, codeAdds, ignored, emptySends, f2Vars>>

\* downloadMarkdown(content) of the unguarded script: a local save, no request
downloadMarkdown ==
    /\ script = "unguarded"
    /\ Len(downloads) < MaxDownloads
    /\ \E k \in 1..Len(chatBox) :
         /\ chatBox[k].content # None
         /\ downloads' = Append(downloads,
               Download("local", FALSE, None, chatBox[k].content, <<>>, "writeup.md",
                        "done"))
    /\ UNCHANGED <<script, inputVars, registryVars, sendDisabled, chatBox,
                   currentSessionId, requests, readers, objectUrls, codeAdds, ignored, emptySends, f2Vars>>

\* =============================================================== frontend2
Prompts == {<<>>, <<"a">>}      \* what the user writes in the prompt box

\* the user edits the prompt (promptEl.value)
EditPrompt ==
    /\ script = "frontend2"
    /\ \E p \in Prompts : p # value /\ value' = p
    /\ UNCHANGED <<script, selectionStart, lastCursorPosition, registryVars,
                   sendDisabled, chatBox, currentSessionId, requests, readers,
                   objectUrls, downloads, codeAdds, ignored, emptySends, f2Vars>>

\* a .mapping-item: its label text, its input's data-placeholder, the chosen
\* file (None = none), the textarea text and what the preview shows (the
\* img's src or the pre's text; <<>> = nothing)
MappingItem(type, placeholder) ==
    [type |-> type, label |-> placeholder, placeholder |-> placeholder,
     file |-> None, text |-> <<>>, preview |-> <<>>]

\* [data-placeholder^="[[type"]
StartsWithAny(text, prefix) == TRUE
StartsWith(text, prefix) == Substring(text, 0, Len(prefix)) = prefix

\* the positions in rs of the rows reindexPlaceholders(type) renumbers
Matches(type, es, rs) ==
    {k \in 1..Len(rs) :
        StartsWith(es[rs[k]].placeholder, <<"[", "[">> \o TypeChars(type))}

\* the number reindexPlaceholders gives the row at position k: counter starts
\* at 1 and goes up by one at every matching row
ReindexNumber(type, es, rs, k) ==
    Cardinality({j \in Matches(type, es, rs) : j <= k})

\* the elements after reindexPlaceholders(type) ran over the rows rs
Reindexed(type, es, rs) ==
    [id \in 1..Len(es) |->
        IF \E k \in Matches(type, es, rs) : rs[k] = id
        THEN LET k == CHOOSE k \in Matches(type, es, rs) : rs[k] = id
                 newPlaceholder == Placeholder(type, ReindexNumber(type, es, rs, k))
             IN  [es[id] EXCEPT !.label = newPlaceholder, !.placeholder = newPlaceholder]
        ELSE es[id]]

\* the counter reindexPlaceholders(type) leaves
ReindexedCounterStale(type, es, rs) == Cardinality(Matches(type, es, rs)) + 2
ReindexedCounter(type, es, rs) == Cardinality(Matches(type, es, rs)) + 1

\* addImageBtn click
addImage ==
    /\ script = "frontend2"
    /\ Len(elems) < MaxRows
    /\ Work < MaxWork
    /\ LET placeholder == Placeholder("img", imageCounter) IN
         /\ imageCounter' = PostIncrement(imageCounter)
         /\ elems' = Append(elems, MappingItem("img", placeholder))
         /\ rows' = Append(rows, Len(elems) + 1)
    /\ UNCHANGED <<script, inputVars, registryVars, sendDisabled, chatBox,
                   currentSessionId, requests, readers, objectUrls, downloads, codeAdds, ignored, emptySends,
                   generateDisabled, outputEl, downloadZipDisabled, downloadDocxDisabled>>

\* addCodeBtn click
addCode ==
    /\ script = "frontend2"
    /\ Len(elems) < MaxRows
    /\ Work < MaxWork
    /\ LET placeholder == Placeholder("code", codeCounter) IN
         /\ codeCounter' = PostIncrement(codeCounter)
         /\ elems' = Append(elems, MappingItem("code", placeholder))
         /\ rows' = Append(rows, Len(elems) + 1)
    /\ UNCHANGED <<script, inputVars, placeholderMap, imgCounter, imagePreviews,
                   codePreviews, mintLog, sendDisabled, chatBox, currentSessionId,
                   requests, readers, objectUrls, downloads, codeAdds, ignored, emptySends, imageCounter,
                   generateDisabled, outputEl, downloadZipDisabled, downloadDocxDisabled>>

\* deleteBtn click of a row: div.remove(), then reindexPlaceholders of the
\* type of the handler that created the row
deleteRow ==
    /\ script = "frontend2"
    /\ \E k \in 1..Len(rows) :
         LET id == rows[k]
             type == elems[id].type
             rs == SubSeq(rows, 1, k - 1) \o SubSeq(rows, k + 1, Len(rows))
         IN  /\ rows' = rs
             /\ elems' = Reindexed(type, elems, rs)
             /\ IF type = "img"
                THEN /\ imageCounter' = ReindexedCounter("img", elems, rs)
                     /\ UNCHANGED codeCounter
                ELSE /\ codeCounter' = ReindexedCounter("code", elems, rs)
                     /\ UNCHANGED imageCounter
    /\ UNCHANGED <<script, inputVars, placeholderMap, imgCounter, imagePreviews,
                   codePreviews, mintLog, sendDisabled, chatBox, currentSessionId,
                   requests, readers, objectUrls, downloads, codeAdds, ignored, emptySends, generateDisabled,
                   outputEl, downloadZipDisabled, downloadDocxDisabled>>

\* input 'change' listener of an image row: the user chose file f (None: the
\* choice was cleared)
fileChange ==
    /\ script = "frontend2"
    /\ \E k \in 1..Len(rows), f \in Blobs \cup {None} :
         LET id == rows[k] IN
         /\ elems[id].type = "img"
         /\ f # elems[id].file
         /\ IF f # None
            THEN /\ Len(objectUrls) < MaxFiles
                 /\ objectUrls' = Append(objectUrls, f)
                 /\ elems' = [elems EXCEPT ![id].file = f,
                                           ![id].preview = ObjectUrl(Len(objectUrls) + 1)]
            ELSE /\ elems' = [elems EXCEPT ![id].file = None, ![id].preview = <<>>]
                 /\ UNCHANGED objectUrls
    /\ UNCHANGED <<script, inputVars, registryVars, sendDisabled, chatBox,
                   currentSessionId, requests, readers, downloads, codeAdds, ignored, emptySends,
                   imageCounter, rows, generateDisabled, outputEl, downloadZipDisabled,
                   downloadDocxDisabled>>

\* textarea 'input' listener of a code row: the user wrote t
textInput ==
    /\ script = "frontend2"
    /\ \E k \in 1..Len(rows), t \in TextareaTexts :
         LET id == rows[k] IN
         /\ elems[id].type = "code"
         /\ t # elems[id].text
         /\ elems' = [elems EXCEPT ![id].text = t, ![id].preview = t]
    /\ UNCHANGED <<script, inputVars, registryVars, sendDisabled, chatBox,
                   currentSessionId, requests, readers, objectUrls, downloads, codeAdds, ignored, emptySends,
                   imageCounter, rows, generateDisabled, outputEl, downloadZipDisabled,
                   downloadDocxDisabled>>

\* mappings[m.placeholder] = m.content for every m of ms, in order
RECURSIVE RegisterAll(_, _)
RegisterAll(map, ms) ==
    IF ms = <<>> THEN map
    ELSE RegisterAll(Register(map, Head(ms).placeholder, Head(ms).content), Tail(ms))

\* the rows of the container that hold an input[type=file] with a chosen file
FileRows == SelectSeq(rows, LAMBDA id : elems[id].type = "img" /\ elems[id].file # None)

\* the textareas of the container, as {placeholder, content}
RECURSIVE TextareaMappings(_)
TextareaMappings(rs) ==
    IF rs = <<>> THEN <<>>
    ELSE (IF elems[Head(rs)].type = "code"
          THEN <<[placeholder |-> elems[Head(rs)].placeholder,
                  content |-> elems[Head(rs)].text]>>
          ELSE <<>>) \o TextareaMappings(Tail(rs))

\* one FileReader promise per file row: the input it reads, the file, the
\* token the row shows at the click (history) and, once onload has fired, what
\* it resolved with
RECURSIVE StartReads(_)
StartReads(rs) ==
    IF rs = <<>> THEN <<>>
    ELSE <<[id |-> Head(rs), blob |-> elems[Head(rs)].file,
            shown |-> elems[Head(rs)].label, done |-> FALSE,
            placeholder |-> <<>>, content |-> <<>>]>> \o StartReads(Tail(rs))

Results(reads) ==
    [j \in 1..Len(reads) |->
        [placeholder |-> reads[j].placeholder, content |-> reads[j].content]]

\* generateBtn click: a disabled button dispatches no click, so the handler
\* runs only while the button is enabled.  With no file to read Promise.all
\* resolves in the same task and the POST goes out at once.
generateClick ==
    /\ script = "frontend2"
    /\ ~generateDisabled
    /\ Len(requests) < MaxSends
    /\ Work < MaxWork
    /\ generateDisabled' = TRUE
    /\ outputEl' = <<"Generating...">>
    /\ LET mappings == RegisterAll(EmptyMap, TextareaMappings(rows))
           reads == StartReads(FileRows)
       IN  requests' = Append(requests,
               [Request(value, mappings) EXCEPT
                   !.pc = IF reads = <<>> THEN "fetch" ELSE "reading",
                   !.reads = reads])
    /\ UNCHANGED <<script, inputVars, registryVars, sendDisabled, chatBox,
                   currentSessionId, readers, objectUrls, downloads, codeAdds, ignored, emptySends,
                   imageCounter, elems, rows, downloadZipDisabled, downloadDocxDisabled>>

\* the message the generate handler derives from a non-success answer:
\* response.json() is not guarded, so an empty body raises its SyntaxError
GenerateErrorMessage(r) ==
    IF r.kind = "reject" THEN FetchErrorMessage
    ELSE IF r.body = "json" THEN DetailOr(r.detail, "Failed to generate writeup.")
    ELSE JsonErrorMessage

\* a FileReader of generate call i settles: onload resolves its promise with
\* the input's data-placeholder as it is now, and the last one to resolve lets
\* the POST go out; onerror rejects Promise.all with a ProgressEvent, whose
\* message is undefined
readSettled ==
    /\ script = "frontend2"
    /\ \E i \in 1..Len(requests) :
         /\ requests[i].pc = "reading"
         /\ \E j \in 1..Len(requests[i].reads), loaded \in BOOLEAN :
              LET rd == requests[i].reads[j]
                  reads == [requests[i].reads EXCEPT
                               ![j].done = TRUE,
                               ![j].placeholder = elems[rd.id].placeholder,
                               ![j].content = DataUrl(rd.blob)]
                  all == \A k \in 1..Len(reads) : reads[k].done
              IN  /\ ~rd.done
                  /\ IF loaded
                     THEN /\ requests' = [requests EXCEPT
                               ![i].reads = IF all THEN <<>> ELSE reads,
                               ![i].pc = IF all THEN "fetch" ELSE "reading",
                               ![i].mappings =
                                   IF all THEN RegisterAll(@, Results(reads)) ELSE @]
                          /\ UNCHANGED <<outputEl, generateDisabled>>
                     ELSE /\ requests' = [requests EXCEPT
                               ![i] = [Settled(@, "done", NoResponse) EXCEPT !.reads = <<>>]]
                          /\ outputEl' = ErrorText("undefined")
                          /\ generateDisabled' = Finally(generateDisabled)
    /\ UNCHANGED <<script, inputVars, registryVars, sendDisabled, chatBox,
                   currentSessionId, readers, objectUrls, downloads, codeAdds, ignored, emptySends,
                   imageCounter, elems, rows, downloadZipDisabled, downloadDocxDisabled>>

\* downloadZipBtn.disabled / downloadDocxBtn.disabled after a generate call
\* settled with r: set to false at the end of the success path only
DownloadDisabledAfterAny(disabled, r) == FALSE
DownloadDisabledAfter(disabled, r) == IF r.kind = "ok" THEN FALSE ELSE disabled

\* generate call i settles with r: the rest of the handler, through try, catch
\* and finally
settledF2 ==
    /\ script = "frontend2"
    /\ \E i \in 1..Len(requests), r \in Responses :
         /\ InFlight(i)
         /\ requests' = [requests EXCEPT ![i] = Settled(@, "done", r)]
         /\ IF r.kind = "ok"
            THEN outputEl' = <<r.generated_text>>
            ELSE outputEl' = ErrorText(GenerateErrorMessage(r))
         /\ downloadZipDisabled' = DownloadDisabledAfter(downloadZipDisabled, r)
         /\ downloadDocxDisabled' = DownloadDisabledAfter(downloadDocxDisabled, r)
         /\ currentSessionId' = SessionAfter(currentSessionId, r)
         /\ generateDisabled' = Finally(generateDisabled)
    /\ UNCHANGED <<script, inputVars, registryVars, sendDisabled, chatBox, readers,
                   objectUrls, downloads, codeAdds, ignored, emptySends, imageCounter, elems, rows>>

\* downloadZipBtn / downloadDocxBtn click: handleDownload up to its await
handleDownload ==
    /\ script = "frontend2"
    /\ Len(downloads) < MaxDownloads
    /\ \E endpoint \in Endpoints :
         /\ ~(IF endpoint = "/download-package" THEN downloadZipDisabled
                                                ELSE downloadDocxDisabled)
         /\ downloads' = Append(downloads,
               IF Falsy(currentSessionId)
               THEN Download(endpoint, FALSE, currentSessionId, <<>>, <<>>, None, "done")
               ELSE Download(endpoint, TRUE, currentSessionId, outputEl, <<>>, None,
                             "fetch"))
    /\ UNCHANGED <<script, inputVars, registryVars, sendDisabled, chatBox,
                   currentSessionId, requests, readers, objectUrls, codeAdds, ignored, emptySends, f2Vars>>

\* the export fetch of download j settles (frontend2): the rest of
\* handleDownload
downloadSettledF2 ==
    /\ script = "frontend2"
    /\ \E j \in 1..Len(downloads), r \in DownloadResponses :
         /\ downloads[j].pc = "fetch"
         /\ downloads' = [downloads EXCEPT
               ![j].pc = "done",
               ![j].resp = r,
               ![j].saved = SavedFile(downloads[j].endpoint, r),
               ![j].alert = CASE r.kind = "ok" -> <<>>
                              [] r.kind = "reject" -> ErrorText(FetchErrorMessage)
                              [] r.kind = "err" /\ r.body = "json" ->
                                    ErrorText(DetailOr(r.detail, "Download failed"))
                              [] OTHER -> ErrorText(JsonErrorMessage)]
    /\ UNCHANGED <<script, inputVars, registryVars, sendDisabled, chatBox,
                   currentSessionId, requests, readers, objectUrls, codeAdds, ignored, emptySends, f2Vars>>

\* ------------------------------------------------------------ specification
\* the export buttons of frontend2 start disabled in the page's markup
InitialDownloadDisabled == TRUE

InitWith(scripts) ==
    /\ script \in scripts
    /\ value = <<>>
    /\ selectionStart = 0
    /\ lastCursorPosition = 0
    /\ placeholderMap = EmptyMap
    /\ imgCounter = 1
    /\ codeCounter = 1
    /\ imagePreviews = <<>>
    /\ codePreviews = <<>>
    /\ sendDisabled = FALSE
    /\ chatBox = <<>>
    /\ currentSessionId = Null
    /\ requests = <<>>
    /\ readers = <<>>
    /\ objectUrls = <<>>
    /\ downloads = <<>>
    /\ mintLog = <<>>
    /\ codeAdds = 0
    /\ ignored = 0
    /\ emptySends = 0
    /\ imageCounter = 1
    /\ elems = <<>>
    /\ rows = <<>>
    /\ generateDisabled = FALSE
    /\ outputEl = <<>>
    /\ downloadZipDisabled = InitialDownloadDisabled
    /\ downloadDocxDisabled = InitialDownloadDisabled

Init == InitWith(Scripts)
InitChat == InitWith({"guarded", "unguarded"})
InitForm == InitWith({"frontend2"})

\* composing and sending in the chat scripts
NextChat ==
    \/ TypeChar \/ MoveCaret \/ focusout
    \/ handlePaste \/ readerOnload \/ handlePasteUnguarded \/ addCodeFromModal
    \/ sendMessage \/ settled \/ sendMessageUnguarded \/ settledUnguarded

\* the attachment rows and the generate handler of frontend2
NextForm ==
    \/ EditPrompt \/ addImage \/ addCode \/ deleteRow \/ fileChange \/ textInput
    \/ generateClick \/ readSettled \/ settledF2

\* generating and exporting in every script
NextNet ==
    \/ TypeChar \/ sendMessage \/ settled \/ sendMessageUnguarded \/ settledUnguarded
    \/ downloadClick \/ downloadSettled \/ downloadMarkdown
    \/ generateClick \/ settledF2 \/ handleDownload \/ downloadSettledF2

Next == NextChat \/ NextForm \/ NextNet

Spec == Init /\ [][Next]_vars
SpecChat == InitChat /\ [][NextChat]_vars
SpecForm == InitForm /\ [][NextForm]_vars
SpecNet == Init /\ [][NextNet]_vars

\* the two scripts that latch their trigger, with every pending fetch and file
\* read settling eventually
InitLatch == InitWith({"guarded", "frontend2"})
NextLatch == TypeChar \/ sendMessage \/ settled \/ NextForm
SpecLatch ==
    /\ InitLatch
    /\ [][NextLatch]_vars
    /\ WF_vars(settled)
    /\ WF_vars(readSettled)
    /\ WF_vars(settledF2)

\* ================================================================== claims
Types == {"img", "code"}
Pending(i) == requests[i].pc \in {"reading", "fetch"}
Img(n) == Placeholder("img", n)

\* C1: in the guarded chat script and in frontend2 at most one generation
\* call is pending at any time: a trigger that arrives while an earlier call
\* has not settled starts no second one.
C1_OneRequestInFlight ==
    script \in {"guarded", "frontend2"}
        => Cardinality({i \in 1..Len(requests) : Pending(i)}) <= 1

\* a send is triggered in the guarded script while a request is in flight, the
\* input holds a message and the run's budget would allow another request
C1_Witness ==
    /\ script = "guarded"
    /\ \E i \in 1..Len(requests) : Pending(i)
    /\ Trim(value) # <<>>
    /\ Len(requests) < MaxSends
    /\ Work < MaxWork

\* C2 (as claimed): every placeholder token contained in the prompt of a
\* request of the guarded chat script has an entry in that request's mappings.
C2_PromptTokensMapped ==
    script = "guarded" =>
        \A i \in 1..Len(requests) :
            InFlight(i) =>
                \A t \in AllTokens :
                    Occurs(t, requests[i].prompt) => t \in DOMAIN requests[i].mappings

\* C3 (as claimed): the step in which a generation request of a chat script
\* settles leaves the registry reset: empty map, both counters 1, no previews.
C3_SettleResets ==
    [][(InChat /\ \E i \in 1..Len(requests) : InFlight(i) /\ requests'[i].pc # "fetch")
          => /\ placeholderMap' = EmptyMap
             /\ imgCounter' = 1
             /\ codeCounter' = 1
             /\ imagePreviews' = <<>>
             /\ codePreviews' = <<>>]_vars

\* the tokens of one type minted since the last reset, in minting order
Minted(type) == SelectSeq(mintLog, LAMBDA e : e.type = type)

\* C4: in the chat scripts the tokens minted for a type since the last reset
\* are [[type1]], [[type2]], ... in minting order, and the type's counter is
\* one more than their number.
C4_MintsAreConsecutive ==
    InChat =>
        /\ \A type \in Types :
              \A k \in 1..Len(Minted(type)) : Minted(type)[k].token = Placeholder(type, k)
        /\ imgCounter = Len(Minted("img")) + 1
        /\ codeCounter = Len(Minted("code")) + 1

\* two images were minted in the cycle that follows a reset
C4_Witness ==
    /\ InChat
    /\ \E i \in 1..Len(requests) : requests[i].pc = "done"
    /\ Len(Minted("img")) = 2

\* C5 (as claimed): a step that inserts one placeholder (at the live caret for
\* an image, at lastCursorPosition for a code block) makes the input longer by
\* the placeholder's length and leaves the placeholder at [position, position
\* + length).
C5_InsertIsSplice ==
    [][(InChat /\ Len(mintLog') = Len(mintLog) + 1)
          => LET e == mintLog'[Len(mintLog')]
                 position == IF e.type = "img" THEN selectionStart
                                               ELSE lastCursorPosition
             IN  /\ Len(value') = Len(value) + Len(e.token)
                 /\ Substring(value', position, position + Len(e.token)) = e.token]_vars

\* C6 (as claimed): in the guarded script, with two images pasted and the caret
\* still right behind the first token, the read that completes second leaves
\* the first pasted image under [[img1]], the second under [[img2]], and
\* [[img2]] spliced right behind [[img1]].
C6_PasteOrder ==
    [][(/\ script = "guarded"
        /\ requests = <<>>
        /\ Len(readers) = 2
        /\ Len(mintLog) = 1 /\ mintLog[1].type = "img"
        /\ Len(mintLog') = 2 /\ mintLog'[2].type = "img"
        /\ selectionStart >= Len(Img(1))
        /\ Substring(value, selectionStart - Len(Img(1)), selectionStart) = Img(1))
          => /\ Img(1) \in DOMAIN placeholderMap'
             /\ Img(2) \in DOMAIN placeholderMap'
             /\ placeholderMap'[Img(1)] = DataUrl(readers[1].blob)
             /\ placeholderMap'[Img(2)] = DataUrl(readers[2].blob)
             /\ value' = Substring(value, 0, selectionStart) \o Img(2)
                            \o Substring(value, selectionStart, Len(value))]_vars

\* the rows of one type, in display order
RowsOf(type) == SelectSeq(rows, LAMBDA id : elems[id].type = type)

\* C7: in frontend2 the rows of each type show [[type1]] .. [[typen]] in
\* display order, on the label and in data-placeholder, and the type's counter
\* is n + 1.
C7_RowsContiguous ==
    script = "frontend2" =>
        /\ \A type \in Types :
              \A k \in 1..Len(RowsOf(type)) :
                  /\ elems[RowsOf(type)[k]].label = Placeholder(type, k)
                  /\ elems[RowsOf(type)[k]].placeholder = Placeholder(type, k)
        /\ imageCounter = Len(RowsOf("img")) + 1
        /\ codeCounter = Len(RowsOf("code")) + 1

\* a row was deleted in front of two rows of its type, which were renumbered
C7_Witness ==
    /\ script = "frontend2"
    /\ rows = <<2, 3>>
    /\ elems[1].type = elems[2].type
    /\ elems[2].type = elems[3].type

BotMessages(i) ==
    SelectSeq(chatBox, LAMBDA e : e.kind = "bot" /\ e.req = i)

\* what the page shows for request i, once it has returned: a chat script
\* shows its bot messages, frontend2 the output box (until the next generate)
ShownFor(i, text) ==
    IF InChat
    THEN /\ Len(BotMessages(i)) = 1
         /\ BotMessages(i)[1].text = text
         /\ BotMessages(i)[1].content = None
    ELSE i = Len(requests) => outputEl = text

Returned(i) == requests[i].pc \in {"done", "threw"} /\ requests[i].resp.kind # "none"

\* C9 (as claimed): a non-success answer with a JSON body {detail: d}, d not
\* empty, is shown as exactly "Error: " followed by d, in every script.
C9_DetailShownVerbatim ==
    \A i \in 1..Len(requests) :
        (/\ Returned(i)
         /\ requests[i].resp.kind = "err"
         /\ requests[i].resp.body = "json"
         /\ requests[i].resp.detail # "")
            => ShownFor(i, <<"Error: ", requests[i].resp.detail>>)

\* the fixed fallback message of the running script
Fallback ==
    IF script = "frontend2" THEN "Failed to generate writeup."
                            ELSE "An unknown error occurred."

\* C10 (as claimed): a non-success answer with an empty body is shown as the
\* script's fixed fallback message, in every script.
C10_EmptyBodyShowsFallback ==
    \A i \in 1..Len(requests) :
        (/\ Returned(i)
         /\ requests[i].resp.kind = "err"
         /\ requests[i].resp.body = "empty")
            => ShownFor(i, <<"Error: ", Fallback>>)

\* the trigger control of the running script is disabled
Latched == IF script = "frontend2" THEN generateDisabled ELSE sendDisabled

\* C11: in the guarded chat script and in frontend2 the trigger control is
\* disabled only while a generation call is pending, and, every fetch and file
\* read settling, a disabled trigger is eventually enabled again.
C11_LatchReleased ==
    /\ [](Latched => \E i \in 1..Len(requests) : Pending(i))
    /\ (Latched ~> ~Latched)

\* a generate call ended on a failed file read and the button is enabled again
C11_Witness ==
    /\ script = "frontend2"
    /\ ~generateDisabled
    /\ \E i \in 1..Len(requests) :
          requests[i].pc = "done" /\ requests[i].resp.kind = "none"

\* the image entries of a generate click as the rows stood at the click: the
\* token each file row showed, with the data URL of its file
ClickEntries(reads) ==
    [j \in 1..Len(reads) |->
        [placeholder |-> reads[j].shown, content |-> DataUrl(reads[j].blob)]]

\* C12 (as claimed): when the file reads of a frontend2 generate call have all
\* completed, the mappings it posts are the code entries taken at the click
\* plus one entry per file row, keyed by the token that row showed at the click.
C12_MappingsAsAtClick ==
    [][\A i \in 1..Len(requests) :
          (script = "frontend2" /\ requests[i].pc = "reading" /\ requests'[i].pc = "fetch")
              => requests'[i].mappings
                    = RegisterAll(requests[i].mappings, ClickEntries(requests[i].reads))]_vars

\* the generation calls that were answered with success
Succeeded == {i \in 1..Len(requests) : requests[i].pc = "done" /\ requests[i].resp.kind = "ok"}

\* C13: in the guarded chat script and in frontend2 currentSessionId is null
\* while no generation has succeeded and otherwise the session_id of the latest
\* success answer, whatever failed after it.
C13_SessionIsLatestSuccess ==
    script \in {"guarded", "frontend2"} =>
        IF Succeeded = {}
        THEN currentSessionId = Null
        ELSE LET last == CHOOSE i \in Succeeded : \A k \in Succeeded : k <= i
             IN  currentSessionId = requests[last].resp.session_id

\* a generation succeeded with session s1 and a later one failed
C13_Witness ==
    /\ script \in {"guarded", "frontend2"}
    /\ Len(requests) = 2
    /\ requests[1].pc = "done" /\ requests[1].resp.kind = "ok"
    /\ requests[1].resp.session_id = "s1"
    /\ requests[2].pc = "done" /\ requests[2].resp.kind \in {"err", "reject"}
    /\ currentSessionId = "s1"

\* C14 (as claimed): the mappings of a generation request of a chat script
\* hold, for every token attached since the last reset, the base64 data URL of
\* the image attached under it or the raw code text supplied for it, and
\* nothing else.
C14_ContentRoundTrips ==
    [][(InChat /\ Len(requests') = Len(requests) + 1)
          => LET mappings == requests'[Len(requests')].mappings IN
             /\ DOMAIN mappings = {mintLog[k].token : k \in 1..Len(mintLog)}
             /\ \A k \in 1..Len(mintLog) :
                   mappings[mintLog[k].token]
                       = IF mintLog[k].type = "img" THEN DataUrl(mintLog[k].source)
                                                    ELSE mintLog[k].source]_vars

\* the preview object URLs that are live: every one that was created, since no
\* script passes a preview URL to URL.revokeObjectURL
LiveObjectUrls == {ObjectUrl(k) : k \in 1..Len(objectUrls)}

\* the image sources the page displays: the img of a row of the container
\* (frontend2) or of a preview in the preview area (chat scripts)
DisplayedPreviews ==
    IF script = "frontend2"
    THEN {elems[rows[j]].preview : j \in 1..Len(rows)}
    ELSE {imagePreviews[j].url : j \in 1..Len(imagePreviews)}

\* C15 (as claimed): every live preview object URL is the source of a preview
\* that is displayed.
C15_PreviewUrlsReleased == LiveObjectUrls \subseteq DisplayedPreviews

\* an export control can be activated: an enabled download button of frontend2,
\* or download buttons on a bot message of the guarded chat script
ExportActivatable ==
    IF script = "frontend2" THEN ~downloadZipDisabled \/ ~downloadDocxDisabled
    ELSE \E k \in 1..Len(chatBox) : chatBox[k].content # None

\* C16: in frontend2 and in the guarded chat script an export control can be
\* activated only after a generation has succeeded, download buttons of the
\* chat sit only on the messages of successful generations, and
\* currentSessionId is then not null.
C16_ExportOnlyAfterSuccess ==
    script \in {"guarded", "frontend2"} =>
        /\ ExportActivatable => Succeeded # {} /\ currentSessionId # Null
        /\ \A k \in 1..Len(chatBox) :
              chatBox[k].content # None => chatBox[k].req \in Succeeded

\* frontend2: a first generation failed, a second one succeeded and the
\* download buttons are enabled
C16_Witness ==
    /\ script = "frontend2"
    /\ Len(requests) = 2
    /\ requests[1].pc = "done" /\ requests[1].resp.kind = "err"
    /\ 2 \in Succeeded
    /\ ~downloadZipDisabled /\ ~downloadDocxDisabled

\* C17: in the chat scripts a paste without an image item and a code confirm
\* with blank text leave the map, both counters, the input text,
\* lastCursorPosition and the previews as they are and mint no token: every
\* token minted stands for a pasted image or for code text that is not blank.
C17_IgnoredEventsAreNoOps ==
    /\ [][ignored' # ignored
            => UNCHANGED <<placeholderMap, imgCounter, codeCounter, value,
                           lastCursorPosition, imagePreviews, codePreviews, mintLog,
                           readers, objectUrls>>]_vars
    /\ [](InChat =>
            /\ \A k \in 1..Len(mintLog) :
                  IF mintLog[k].type = "img" THEN mintLog[k].source \in Blobs
                                             ELSE Trim(mintLog[k].source) # <<>>
            /\ \A k \in 1..Len(readers) : readers[k].blob \in Blobs)

\* an event was ignored while the registry held an attachment
C17_Witness ==
    /\ InChat
    /\ ignored = 1
    /\ placeholderMap # EmptyMap
    /\ value # <<>>

\* C18: an export call answered with a non-success status or failing in
\* transport ends with an alert and without a saved file, and no step of an
\* export handler changes currentSessionId.
C18_FailedExportNotifies ==
    /\ [](\A j \in 1..Len(downloads) :
            (downloads[j].pc = "done" /\ downloads[j].resp.kind \in {"err", "reject"})
                => downloads[j].alert # <<>> /\ downloads[j].saved = None)
    /\ [][downloads' # downloads => currentSessionId' = currentSessionId]_vars

\* an export call of a live session failed and raised its alert
C18_Witness ==
    \E j \in 1..Len(downloads) :
        /\ downloads[j].posted
        /\ downloads[j].pc = "done"
        /\ downloads[j].resp.kind \in {"err", "reject"}
        /\ downloads[j].alert # <<>>
        /\ currentSessionId = downloads[j].session_id

\* the keys of the map that are tokens of a type
KeysOf(type) ==
    {t \in DOMAIN placeholderMap : StartsWith(t, <<"[", "[">> \o TypeChars(type))}

\* C19: in the chat scripts the map holds exactly imgCounter - 1 image keys and
\* codeCounter - 1 code keys, and a step that mints tokens finds none of them
\* in the map and adds one key for each.
C19_NoOverwrite ==
    /\ [](InChat =>
            /\ Cardinality(KeysOf("img")) = imgCounter - 1
            /\ Cardinality(KeysOf("code")) = codeCounter - 1)
    /\ [][(InChat /\ Len(mintLog') > Len(mintLog))
            => /\ \A k \in (Len(mintLog) + 1)..Len(mintLog') :
                     mintLog'[k].token \notin DOMAIN placeholderMap
               /\ Cardinality(DOMAIN placeholderMap')
                     = Cardinality(DOMAIN placeholderMap) + Len(mintLog') - Len(mintLog)]_vars

\* the guarded script, after a reset: an image and a code block attached again
C19_Witness ==
    /\ script = "guarded"
    /\ \E i \in 1..Len(requests) : requests[i].pc = "done"
    /\ imgCounter = 2
    /\ codeCounter = 2

\* C20 (as claimed): a step of a chat script that inserts one placeholder
\* splices it at its position (lastCursorPosition for a code block, the live
\* caret for an image) and leaves lastCursorPosition and the caret both at
\* position + token length.
C20_CaretFollowsInsertion ==
    [][(InChat /\ Len(mintLog') = Len(mintLog) + 1)
          => LET token == mintLog'[Len(mintLog')].token
                 position == IF mintLog'[Len(mintLog')].type = "code"
                             THEN lastCursorPosition
                             ELSE selectionStart
             IN  /\ value' = Substring(value, 0, position) \o token
                                \o Substring(value, position, Len(value))
                 /\ lastCursorPosition' = position + Len(token)
                 /\ selectionStart' = position + Len(token)]_vars

\* the rows of the container that were created with a type other than type
OtherRows(rs, type) == SelectSeq(rs, LAMBDA id : elems[id].type # type)

\* C21: a frontend2 step that deletes a row leaves the prompt text, the output
\* text and currentSessionId unchanged, and leaves the rows of the other type
\* (order, labels, data-placeholder, contents) and that type's counter as they
\* were.
C21_DeleteFrame ==
    [][(script = "frontend2" /\ Len(rows') = Len(rows) - 1)
          => LET gone == CHOOSE k \in 1..Len(rows) :
                            \A j \in 1..Len(rows') : rows'[j] # rows[k]
                 type == elems[rows[gone]].type
             IN  /\ value' = value
                 /\ outputEl' = outputEl
                 /\ currentSessionId' = currentSessionId
                 /\ OtherRows(rows', type) = OtherRows(rows, type)
                 /\ \A j \in 1..Len(rows) :
                       elems[rows[j]].type # type => elems'[rows[j]] = elems[rows[j]]
                 /\ IF type = "img" THEN codeCounter' = codeCounter
                                     ELSE imageCounter' = imageCounter]_vars

\* a row was deleted while a row of the other type, a prompt and an output
\* are on the page
C21_Witness ==
    /\ script = "frontend2"
    /\ value # <<>>
    /\ \E id \in 1..Len(elems), k \in 1..Len(rows) :
          /\ \A j \in 1..Len(rows) : rows[j] # id
          /\ elems[rows[k]].type # elems[id].type

\* the tokens the preview containers show as labels
PreviewLabels ==
    {imagePreviews[k].placeholder : k \in 1..Len(imagePreviews)}
        \cup {codePreviews[k].placeholder : k \in 1..Len(codePreviews)}

\* C22: in the guarded chat script the labels of the image and code previews
\* are exactly the keys of placeholderMap, one preview for each key.
C22_PreviewsMatchRegistry ==
    script = "guarded" =>
        /\ PreviewLabels = DOMAIN placeholderMap
        /\ Len(imagePreviews) + Len(codePreviews) = Cardinality(DOMAIN placeholderMap)

\* a request has settled (previews cleared) and an image and a code block are
\* previewed again
C22_Witness ==
    /\ script = "guarded"
    /\ \E i \in 1..Len(requests) : requests[i].pc = "done"
    /\ Len(imagePreviews) = 1
    /\ Len(codePreviews) = 1

\* C23: in the unguarded chat script a send with a non-empty message while an
\* earlier request is still pending starts a second request (within the bounds
\* on the number of sends), so two requests can be pending at once.
C23_SecondSendStartsRequest ==
    (/\ script = "unguarded"
     /\ Trim(value) # <<>>
     /\ \E i \in 1..Len(requests) : InFlight(i)
     /\ Len(requests) < MaxSends
     /\ Work < MaxWork)
        => ENABLED (/\ sendMessageUnguarded
                    /\ requests' = Append(requests, Request(Trim(value), placeholderMap)))

\* two generation requests of the unguarded script are pending together
C23_Witness ==
    /\ script = "unguarded"
    /\ \E i, j \in 1..Len(requests) : i # j /\ InFlight(i) /\ InFlight(j)

\* the text a page holds for generated_text g: the chat script's buttons close
\* over the string, frontend2 reads it back from the output box
ExportText(g) == IF script = "frontend2" THEN <<g>> ELSE g

\* C24 (as claimed): every export request of the guarded chat script and of
\* frontend2 sends the generated_text of the same successful generation answer
\* whose session_id it sends.
C24_ExportPairsSessionWithText ==
    script \in {"guarded", "frontend2"} =>
        \A j \in 1..Len(downloads) :
            downloads[j].posted
                => \E i \in Succeeded :
                      /\ downloads[j].session_id = requests[i].resp.session_id
                      /\ downloads[j].markdown_content
                            = ExportText(requests[i].resp.generated_text)

\* the tokens of the current map that an earlier request body already carried
AlreadySent == {mintLog[k].token : k \in {j \in 1..Len(mintLog) : mintLog[j].sent}}

\* C25 (as claimed): in the chat scripts a step that issues a generation
\* request sends no map entry that an earlier request already carried.
C25_AttachmentSentOnce ==
    [][(InChat /\ Len(requests') = Len(requests) + 1)
          => DOMAIN requests'[Len(requests')].mappings \cap AlreadySent = {}]_vars

\* what a chat script's send that finds no message text must leave alone: the
\* requests, the placeholder map, both counters, the previews, the chat log and
\* currentSessionId (and, with them, the input and the pending reads)
EmptySendFrame ==
    UNCHANGED <<requests, placeholderMap, imgCounter, codeCounter, imagePreviews,
                codePreviews, chatBox, currentSessionId, value, readers, objectUrls,
                downloads>>

\* C26 (as claimed): in the chat scripts a send whose message text is empty or
\* whitespace only issues no request, leaves the map, the counters, the
\* previews, the chat log and currentSessionId unchanged, and the send control
\* is enabled afterwards.
C26_EmptySendEnabledAfter ==
    [][(InChat /\ emptySends' = emptySends + 1)
          => EmptySendFrame /\ sendDisabled' = FALSE]_vars

\* C26 (amended): such a send issues no request and leaves the map, the
\* counters, the previews, the chat log and currentSessionId unchanged; the
\* send control is enabled afterwards unless a request of the guarded script is
\* still in flight, in which case it stays disabled.
C26_EmptySendIsNoOp ==
    [][(InChat /\ emptySends' = emptySends + 1)
          => /\ Trim(value) = <<>>
             /\ EmptySendFrame
             /\ sendDisabled' = (script = "guarded" /\ \E i \in 1..Len(requests) : InFlight(i))]_vars

\* an empty send happened in the guarded script while a request carrying an
\* attachment was in flight
C26_Witness ==
    /\ script = "guarded"
    /\ emptySends = 1
    /\ sendDisabled
    /\ placeholderMap # EmptyMap
    /\ \E i \in 1..Len(requests) : InFlight(i)

====
